---- MODULE Spec2Model ----
(***************************************************************************)
(* Model of the Tool class and the tool() decorator of                     *)
(* Huggingface-course.ipynb.                                               *)
(*                                                                         *)
(* Python strings are TLA+ strings (concatenation \o, Len, SubSeq).        *)
(* Python objects that are shared by reference (the list bound to          *)
(* Tool.arguments) live in a heap, `lists`, and are named by their index.  *)
(***************************************************************************)
EXTENDS Integers, Sequences, FiniteSets, TLC

VARIABLES
    tools,      \* the Tool objects built so far, in creation order
    lists,      \* heap of Python list objects; a Tool holds an index into it
    last,       \* what the last completed top-level operation was and gave
    nmut,       \* how many attribute assignments / list mutations happened
    pc,         \* per thread: where it is inside tool() / to_string()
    loc,        \* per thread: the locals of the running tool() / to_string()
    res         \* per thread: the outcome of the operation it completed last

vars == <<tools, lists, last, nmut, pc, loc, res>>

----------------------------------------------------------------------------
(* Bounds of the model *)

MaxTools == 2
MaxParams == 2
MaxMutations == 1

----------------------------------------------------------------------------
(* Annotations, as inspect.signature reports them.  An annotation object   *)
(* is described by what the code reads of it: whether it has a __name__,   *)
(* that __name__, and its str().  `src` is the text the author wrote.      *)

\* inspect._empty (== inspect.Parameter.empty == inspect.Signature.empty):
\* a class, so it has a __name__.
Empty ==
    [empty |-> TRUE, src |-> "", hasName |-> TRUE, name |-> "_empty",
     text |-> "<class 'inspect._empty'>"]

\* the class int, as in calculator(a: int, b: int) -> int
IntT ==
    [empty |-> FALSE, src |-> "int", hasName |-> TRUE, name |-> "int",
     text |-> "<class 'int'>"]

\* the generic alias list[int]: __name__ is forwarded to list
ListIntT ==
    [empty |-> FALSE, src |-> "list[int]", hasName |-> TRUE, name |-> "list",
     text |-> "list[int]"]

\* the union int | None: a types.UnionType has no __name__
UnionT ==
    [empty |-> FALSE, src |-> "int | None", hasName |-> FALSE, name |-> "",
     text |-> "int | None"]

Declared == {IntT, ListIntT, UnionT}
Annotations == Declared \cup {Empty}

----------------------------------------------------------------------------
(* Functions handed to tool().  doc is func.__doc__ (None or a string);    *)
(* `introspectable` says whether inspect.signature(func) succeeds; `body`  *)
(* names what the function computes.                                       *)

NoDoc == [isNone |-> TRUE, text |-> ""]
Doc(s) == [isNone |-> FALSE, text |-> s]

Param(n, ann) == [name |-> n, annotation |-> ann]

\* the notebook's example cell
calculator ==
    [name |-> "calculator", doc |-> Doc("Multiply two integers."),
     params |-> <<Param("a", IntT), Param("b", IntT)>>, ret |-> IntT,
     introspectable |-> TRUE, body |-> "mul"]

\* def f(): pass
f ==
    [name |-> "f", doc |-> NoDoc, params |-> <<>>, ret |-> Empty,
     introspectable |-> TRUE, body |-> "pass"]

\* def inverse(self: int | None): "" ; return 12 // self
\* (a plain function whose parameter happens to be called self)
inverse ==
    [name |-> "inverse", doc |-> Doc(""),
     params |-> <<Param("self", UnionT)>>, ret |-> Empty,
     introspectable |-> TRUE, body |-> "floordiv"]

ProgramFuncs == {calculator, f, inverse}

ParamNames == {"a", "b", "c"}
FuncNames == {"f", "calculator"}
Docs == {NoDoc, Doc(""), Doc("Multiply two integers.")}

\* sequences of at most n parameters with pairwise different names
ParamLists(n) ==
    UNION {
        {ps \in [1..k -> [name : ParamNames, annotation : Annotations]] :
            \A i, j \in 1..k : i # j => ps[i].name # ps[j].name}
        : k \in 0..n }

\* a builtin whose signature inspect cannot obtain, such as min
builtin_min ==
    [name |-> "min", doc |-> Doc("min(iterable) -> value"), params |-> <<>>,
     ret |-> Empty, introspectable |-> FALSE, body |-> "pass"]

AllFuncs ==
    [name : FuncNames, doc : Docs, params : ParamLists(MaxParams),
     ret : Annotations, introspectable : {TRUE}, body : {"pass"}]
        \cup {builtin_min}

----------------------------------------------------------------------------
(* Tool.to_string *)

\* f"{arg_name}: {arg_type}" for one element of self.arguments
FormatArg(arg) == arg[1] \o ": " \o arg[2]

\* a join that separates with "," alone
RECURSIVE JoinNoSpace(_, _)
JoinNoSpace(sep, strs) ==
    IF Len(strs) = 0 THEN ""
    ELSE IF Len(strs) = 1 THEN strs[1]
    ELSE strs[1] \o "," \o JoinNoSpace(sep, Tail(strs))

\* sep.join(strs)
RECURSIVE Join(_, _)
Join(sep, strs) ==
    IF Len(strs) = 0 THEN ""
    ELSE IF Len(strs) = 1 THEN strs[1]
    ELSE strs[1] \o sep \o Join(sep, Tail(strs))

\* the f-string of the return statement, given args_str
FormatTool(self, args_str) ==
    "Tool Name: " \o self.name \o ","
        \o " Description: " \o self.description \o ","
        \o " Arguments: " \o args_str \o ","
        \o " Outputs: " \o self.outputs

\* to_string(self), with the heap to follow self.arguments
Tool_to_string(self, heap) ==
    LET arguments == heap[self.arguments]
        args_str == Join(", ", [i \in 1..Len(arguments) |-> FormatArg(arguments[i])])
    IN  FormatTool(self, args_str)

----------------------------------------------------------------------------
(* Tool.__init__ *)

Tool_init(name, description, func, arguments, outputs) ==
    [name |-> name, description |-> description, func |-> func,
     arguments |-> arguments, outputs |-> outputs]

----------------------------------------------------------------------------
(* tool() *)

\* a label that special-cases the missing annotation as the empty string
ParamLabelBlank(annotation) ==
    IF annotation = Empty THEN ""
    ELSE IF annotation.hasName THEN annotation.name ELSE annotation.text

\* annotation_name of one parameter
ParamLabel(annotation) ==
    IF annotation.hasName THEN annotation.name ELSE annotation.text

\* a return label that always takes str() of a declared return type
ReturnLabelText(return_annotation) ==
    IF return_annotation = Empty THEN "No return annotation"
    ELSE return_annotation.text

\* outputs, from signature.return_annotation
ReturnLabel(return_annotation) ==
    IF return_annotation = Empty THEN "No return annotation"
    ELSE IF return_annotation.hasName THEN return_annotation.name
         ELSE return_annotation.text

\* a default that is applied only when __doc__ is None
DescriptionNoneOnly(func) ==
    IF func.doc.isNone THEN "No description provided." ELSE func.doc.text

\* description = func.__doc__ or "No description provided."
Description(func) ==
    IF func.doc.isNone \/ func.doc.text = "" THEN "No description provided."
    ELSE func.doc.text

\* the error inspect.signature raises for a callable it cannot introspect
SignatureError(func) == "ValueError: no signature found for builtin " \o func.name

\* one list object shared by every call (a module-level or default-argument
\* list) instead of a fresh one
SharedListId(heap) == 1

\* arguments = []  : the index of the fresh list object in the heap
NewListId(heap) == Len(heap) + 1

\* an insertion at the front of the list
ListPrepend(heap, id, item) == [heap EXCEPT ![id] = <<item>> \o @]

\* arguments.append((param.name, annotation_name))
ListAppend(heap, id, item) == [heap EXCEPT ![id] = Append(@, item)]

\* a loop that stops one parameter early
RECURSIVE ArgumentsLoopShort(_, _, _, _)
ArgumentsLoopShort(heap, id, params, i) ==
    IF i >= Len(params) THEN heap
    ELSE ArgumentsLoopShort(
            ListAppend(heap, id, <<params[i].name, ParamLabel(params[i].annotation)>>),
            id, params, i + 1)

\* the for loop over signature.parameters.values(), from parameter i on
RECURSIVE ArgumentsLoop(_, _, _, _)
ArgumentsLoop(heap, id, params, i) ==
    IF i > Len(params) THEN heap
    ELSE ArgumentsLoop(
            ListAppend(heap, id, <<params[i].name, ParamLabel(params[i].annotation)>>),
            id, params, i + 1)

\* tool(func) for an introspectable func: the heap after the call and the
\* Tool it returns
tool(func, heap) ==
    LET arguments == NewListId(heap)
        heap1 == ArgumentsLoop(Append(heap, <<>>), arguments, func.params, 1)
    IN  [heap |-> heap1,
         tool |-> Tool_init(func.name, Description(func), func, arguments,
                            ReturnLabel(func.ret))]

----------------------------------------------------------------------------
(* Calling a function: Python's binding of positional and keyword          *)
(* arguments to parameters, then the body.                                 *)

\* the calls a caller makes: positional tuple and keyword dictionary
NoKw == [k \in {} |-> 0]
CallInputs ==
    { [args |-> <<>>, kwargs |-> NoKw],
      [args |-> <<3>>, kwargs |-> NoKw],
      [args |-> <<0>>, kwargs |-> NoKw],
      [args |-> <<3>>, kwargs |-> [b |-> 4]],
      [args |-> <<>>, kwargs |-> [self |-> 4]] }

Returns(v) == [kind |-> "return", isNone |-> FALSE, value |-> v, error |-> ""]
ReturnsNone == [kind |-> "return", isNone |-> TRUE, value |-> 0, error |-> ""]
Raises(e) == [kind |-> "raise", isNone |-> FALSE, value |-> 0, error |-> e]

\* binding args/kwargs to parameters that have no defaults: the error it
\* raises ("" when it binds) and the value of each parameter.  The
\* interpreter looks at the keywords first, then at surplus positional
\* arguments, then at parameters left without a value.
Bind(params, args, kwargs) ==
    LET n == Len(params)
        filled == IF Len(args) < n THEN Len(args) ELSE n
        unexpected == {k \in DOMAIN kwargs : \A i \in 1..n : params[i].name # k}
        multiple == {k \in DOMAIN kwargs : \E i \in 1..filled : params[i].name = k}
        missing == {i \in (filled + 1)..n : params[i].name \notin DOMAIN kwargs}
    IN  [error |->
            IF unexpected # {} THEN "TypeError: got an unexpected keyword argument"
            ELSE IF multiple # {} THEN "TypeError: got multiple values for argument"
            ELSE IF Len(args) > n THEN "TypeError: too many positional arguments"
            ELSE IF missing # {} THEN "TypeError: missing required positional argument"
            ELSE "",
         env |-> [i \in 1..n |->
                    IF i <= filled THEN args[i]
                    ELSE IF params[i].name \in DOMAIN kwargs THEN kwargs[params[i].name]
                    ELSE 0]]

\* func(*args, **kwargs)
Apply(func, args, kwargs) ==
    LET b == Bind(func.params, args, kwargs) IN
    IF b.error # "" THEN Raises(b.error)
    ELSE IF func.body = "mul" THEN Returns(b.env[1] * b.env[2])
    ELSE IF func.body = "floordiv" THEN
        IF b.env[1] = 0 THEN Raises("ZeroDivisionError: integer division or modulo by zero")
        ELSE Returns(12 \div b.env[1])
    ELSE ReturnsNone

----------------------------------------------------------------------------
(* Tool.__call__ *)

\* one entry of the record of calls made to wrapped functions
CallOf(func, args, kwargs) == [func |-> func, args |-> args, kwargs |-> kwargs]

\* t(*args, **kwargs): the interpreter binds the call to
\* __call__(self, *args, **kwargs), where the instance already fills self,
\* and the body then calls self.func(*args, **kwargs).  `made` lists the
\* calls of the wrapped function this performs.
Tool_call(self, args, kwargs) ==
    IF "self" \in DOMAIN kwargs
    THEN [outcome |-> Raises("TypeError: Tool.__call__() got multiple values for argument 'self'"),
          made |-> <<>>]
    ELSE [outcome |-> Apply(self.func, args, kwargs),
          made |-> <<CallOf(self.func, args, kwargs)>>]

----------------------------------------------------------------------------
(* The object model: one caller building, reading, changing and calling    *)
(* Tools, each operation taken whole.                                      *)

Threads == {"t1", "t2"}
Idle == [op |-> "none"]

Init ==
    /\ tools = <<>>
    /\ lists = <<>>
    /\ last = [op |-> "none"]
    /\ nmut = 0
    /\ pc = [th \in Threads |-> "idle"]
    /\ loc = [th \in Threads |-> Idle]
    /\ res = [th \in Threads |-> Idle]

\* t = tool(func)
Derive(func) ==
    /\ Len(tools) < MaxTools
    /\ IF func.introspectable
       THEN LET r == tool(func, lists) IN
            /\ lists' = r.heap
            /\ tools' = Append(tools, r.tool)
            /\ last' = [op |-> "tool", kind |-> "return", func |-> func,
                        tool |-> Len(tools) + 1]
       ELSE /\ last' = [op |-> "tool", kind |-> "raise", func |-> func,
                        error |-> SignatureError(func)]
            /\ UNCHANGED <<tools, lists>>
    /\ UNCHANGED <<nmut, pc, loc, res>>

\* the argument lists and texts a caller of Tool(...) supplies
Given ==
    { [name |-> "", description |-> "", arguments |-> <<>>],
      [name |-> "adder", description |-> "Adds two numbers.",
       arguments |-> << <<"a", "int">>, <<"b", "int">> >>] }

\* args = [...]; t = Tool(name, description, func, args, outputs)
Construct(g, func, outputs) ==
    /\ Len(tools) < MaxTools
    /\ lists' = Append(lists, g.arguments)
    /\ tools' = Append(tools, Tool_init(g.name, g.description, func, Len(lists) + 1, outputs))
    /\ last' = [op |-> "Tool", kind |-> "return", func |-> func, tool |-> Len(tools) + 1]
    /\ UNCHANGED <<nmut, pc, loc, res>>

\* s = t.to_string()
Render(t) ==
    /\ t \in 1..Len(tools)
    /\ last' = [op |-> "to_string", kind |-> "return", tool |-> t,
                str |-> Tool_to_string(tools[t], lists)]
    /\ UNCHANGED <<tools, lists, nmut, pc, loc, res>>

\* r = t(*args, **kwargs)
Invoke(t, args, kwargs) ==
    /\ t \in 1..Len(tools)
    /\ LET r == Tool_call(tools[t], args, kwargs) IN
        last' = [op |-> "call", tool |-> t, args |-> args, kwargs |-> kwargs,
                 outcome |-> r.outcome, made |-> r.made]
    /\ UNCHANGED <<tools, lists, nmut, pc, loc, res>>

\* the value an attribute assignment stores, per attribute
Assigned(field) ==
    IF field = "name" THEN "renamed"
    ELSE IF field = "description" THEN ""
    ELSE IF field = "func" THEN f
    ELSE "str"

\* t.name = v, t.description = v, t.func = v, t.outputs = v
SetAttr(t, field) ==
    /\ t \in 1..Len(tools)
    /\ nmut < MaxMutations
    /\ tools' = [tools EXCEPT ![t] = [@ EXCEPT ![field] = Assigned(field)]]
    /\ nmut' = nmut + 1
    /\ last' = [op |-> "setattr", tool |-> t, field |-> field]
    /\ UNCHANGED <<lists, pc, loc, res>>

\* args.append(item) by whoever holds the list: the code that passed it to
\* Tool(...), or the holder of the Tool through t.arguments
Mutate(l) ==
    /\ l \in 1..Len(lists)
    /\ nmut < MaxMutations
    /\ lists' = ListAppend(lists, l, <<"extra", "int">>)
    /\ nmut' = nmut + 1
    /\ last' = [op |-> "append", list |-> l]
    /\ UNCHANGED <<tools, pc, loc, res>>

Next ==
    \/ \E func \in ProgramFuncs : Derive(func)
    \/ \E g \in Given : Construct(g, calculator, "int")
    \/ \E t \in 1..Len(tools) : Render(t)
    \/ \E t \in 1..Len(tools), c \in CallInputs : Invoke(t, c.args, c.kwargs)
    \/ \E t \in 1..Len(tools), field \in {"name", "description", "func", "outputs"} :
            SetAttr(t, field)
    \/ \E l \in 1..Len(lists) : Mutate(l)

Spec == Init /\ [][Next]_vars

----------------------------------------------------------------------------
(* tool() and to_string() as functions of the function handed in: one      *)
(* function drawn from AllFuncs, derived, and the result rendered.         *)

DeriveAny == \E func \in AllFuncs : last.op = "none" /\ Derive(func)

RenderDerived == \E t \in 1..Len(tools) : Render(t)

NextDerive == DeriveAny \/ RenderDerived

SpecDerive == Init /\ [][NextDerive]_vars

----------------------------------------------------------------------------
(* tool() and to_string() run by several threads, one statement (one loop  *)
(* iteration) at a time.  A Tool becomes visible to the other threads when *)
(* tool() returns it.                                                      *)

ThreadFuncs == {calculator, f, builtin_min}

\* signature = inspect.signature(func); arguments = []
ToolBegin(th, func) ==
    /\ pc[th] = "idle"
    /\ Len(lists) < MaxTools
    /\ IF func.introspectable
       THEN /\ lists' = Append(lists, <<>>)
            /\ loc' = [loc EXCEPT ![th] =
                        [op |-> "tool", func |-> func,
                         arguments |-> NewListId(lists), i |-> 1]]
            /\ pc' = [pc EXCEPT ![th] = "for"]
            /\ UNCHANGED res
       ELSE /\ res' = [res EXCEPT ![th] =
                        [op |-> "tool", kind |-> "raise", func |-> func,
                         error |-> SignatureError(func)]]
            /\ UNCHANGED <<lists, loc, pc>>
    /\ UNCHANGED <<tools, last, nmut>>

\* one iteration of the for loop; after the last one, the rest of the body
\* (outputs, description, name: all locals) and the return of Tool(...)
ToolFor(th) ==
    /\ pc[th] = "for"
    /\ LET l == loc[th] IN
       IF l.i <= Len(l.func.params)
       THEN /\ lists' = ListAppend(lists, l.arguments,
                            <<l.func.params[l.i].name,
                              ParamLabel(l.func.params[l.i].annotation)>>)
            /\ loc' = [loc EXCEPT ![th].i = @ + 1]
            /\ UNCHANGED <<tools, pc, res>>
       ELSE /\ tools' = Append(tools,
                            Tool_init(l.func.name, Description(l.func), l.func,
                                      l.arguments, ReturnLabel(l.func.ret)))
            /\ res' = [res EXCEPT ![th] =
                        [op |-> "tool", kind |-> "return", func |-> l.func,
                         tool |-> Len(tools) + 1]]
            /\ pc' = [pc EXCEPT ![th] = "idle"]
            /\ loc' = [loc EXCEPT ![th] = Idle]
            /\ UNCHANGED lists
    /\ UNCHANGED <<last, nmut>>

\* to_string() is entered: the comprehension starts iterating self.arguments
StrBegin(th, t) ==
    /\ pc[th] = "idle"
    /\ t \in 1..Len(tools)
    /\ loc' = [loc EXCEPT ![th] =
                [op |-> "to_string", self |-> t, iter |-> tools[t].arguments,
                 i |-> 1, parts |-> <<>>]]
    /\ pc' = [pc EXCEPT ![th] = "comp"]
    /\ UNCHANGED <<tools, lists, last, nmut, res>>

\* one element of the comprehension; after the last one, the join and the
\* f-string of the return statement
StrComp(th) ==
    /\ pc[th] = "comp"
    /\ LET l == loc[th] IN
       IF l.i <= Len(lists[l.iter])
       THEN /\ loc' = [loc EXCEPT ![th].parts = Append(@, FormatArg(lists[l.iter][l.i])),
                                  ![th].i = @ + 1]
            /\ UNCHANGED <<pc, res>>
       ELSE /\ res' = [res EXCEPT ![th] =
                        [op |-> "to_string", kind |-> "return", tool |-> l.self,
                         str |-> FormatTool(tools[l.self], Join(", ", l.parts))]]
            /\ pc' = [pc EXCEPT ![th] = "idle"]
            /\ loc' = [loc EXCEPT ![th] = Idle]
    /\ UNCHANGED <<tools, lists, last, nmut>>

NextThreads ==
    \E th \in Threads :
        \/ \E func \in ThreadFuncs : ToolBegin(th, func)
        \/ ToolFor(th)
        \/ \E t \in 1..Len(tools) : StrBegin(th, t)
        \/ StrComp(th)

SpecThreads == Init /\ [][NextThreads]_vars

----------------------------------------------------------------------------
(* Properties of the object model (specification Spec) *)

\* the Tool the last operation was about, and the list it points at
LastTool == tools[last.tool]
LastArgs == lists[LastTool.arguments]

\* "a1: t1, ..., ak: tk" as the format is described: pairs in list order,
\* a ", " before each pair but the first
RECURSIVE ArgsSegment(_)
ArgsSegment(pairs) ==
    IF Len(pairs) = 0 THEN ""
    ELSE IF Len(pairs) = 1 THEN pairs[1][1] \o ": " \o pairs[1][2]
    ELSE ArgsSegment(SubSeq(pairs, 1, Len(pairs) - 1))
            \o ", " \o pairs[Len(pairs)][1] \o ": " \o pairs[Len(pairs)][2]

\* C1: to_string() returns exactly
\* "Tool Name: n, Description: d, Arguments: a1: t1, ..., ak: tk, Outputs: o",
\* pairs in list order joined by ", "; with no arguments the segment is empty
\* and the label stays; tool(f) of the bare function f renders as the
\* sentence's literal, and tool(calculator) as the notebook's recorded output.
C1_ToStringFormat ==
    /\ last.op = "to_string" =>
        /\ last.str = "Tool Name: " \o LastTool.name
                        \o ", Description: " \o LastTool.description
                        \o ", Arguments: " \o ArgsSegment(LastArgs)
                        \o ", Outputs: " \o LastTool.outputs
        /\ Len(LastArgs) = 0 =>
                last.str = "Tool Name: " \o LastTool.name
                            \o ", Description: " \o LastTool.description
                            \o ", Arguments: , Outputs: " \o LastTool.outputs
    /\ (last.op = "tool" /\ last.kind = "return" /\ last.func = f) =>
            Tool_to_string(LastTool, lists) =
                "Tool Name: f, Description: No description provided., Arguments: , Outputs: No return annotation"
    /\ (last.op = "tool" /\ last.kind = "return" /\ last.func = calculator) =>
            Tool_to_string(LastTool, lists) =
                "Tool Name: calculator, Description: Multiply two integers., Arguments: a: int, b: int, Outputs: int"

\* a Tool without arguments has been rendered, label in place
C1_Witness ==
    /\ last.op = "to_string"
    /\ Len(LastArgs) = 0
    /\ last.str = "Tool Name: f, Description: No description provided., Arguments: , Outputs: No return annotation"

\* C2 (the return case of the claim): whenever calling the wrapped function
\* with the same arguments returns v, the call of the Tool calls it exactly
\* once with those arguments and returns v.
C2_ReturnsWhatFuncReturns ==
    (last.op = "call"
        /\ Apply(LastTool.func, last.args, last.kwargs).kind = "return") =>
        /\ last.made = <<CallOf(LastTool.func, last.args, last.kwargs)>>
        /\ last.outcome = Apply(LastTool.func, last.args, last.kwargs)

\* every existing Tool has the field values, and the list contents, it had
SameTools ==
    \A t \in 1..Len(tools) :
        /\ tools'[t] = tools[t]
        /\ lists'[tools[t].arguments] = lists[tools[t].arguments]

WellFormed(t) ==
    /\ t.name # ""
    /\ t.description # ""
    /\ Len(lists[t.arguments]) = Len(t.func.params)
    /\ \A i \in 1..Len(t.func.params) :
            lists[t.arguments][i][1] = t.func.params[i].name

\* C5 as stated: every Tool, built by Tool(...) or by tool(func), satisfies
\* the invariants when it is produced.
C5_BothWaysWellFormed ==
    (last.op \in {"tool", "Tool"} /\ last.kind = "return") => WellFormed(LastTool)

\* C5 amended: every Tool produced by tool(func) satisfies them.
C5_DerivedWellFormed ==
    (last.op = "tool" /\ last.kind = "return") => WellFormed(LastTool)

\* tool() has produced a Tool for a function with parameters and a
\* docstring that is empty
C5_Witness ==
    /\ last.op = "tool" /\ last.kind = "return"
    /\ last.func.doc = Doc("")
    /\ Len(LastArgs) > 0

----------------------------------------------------------------------------
(* Properties of tool() (specification SpecDerive) *)

\* tool(func) has just returned a Tool
Derived == last.op = "tool" /\ last.kind = "return"

\* C3: tool(f).arguments has exactly one entry per declared parameter of f,
\* the i-th carrying the i-th parameter's name.
C3_ArgumentsFollowParameters ==
    Derived =>
        /\ Len(LastArgs) = Len(last.func.params)
        /\ \A i \in 1..Len(last.func.params) :
                LastArgs[i][1] = last.func.params[i].name

\* tool() has returned for a function with at least two parameters
C3_Witness == Derived /\ Len(last.func.params) >= 2 /\ Len(LastArgs) >= 2

\* C6: tool(f) returns a Tool for every introspectable f whatever metadata
\* is missing; every parameter without annotation gets the one label
\* "_empty"; and tool(f) raises only when the signature cannot be obtained,
\* and then the signature error itself, building nothing.
C6_TotalOverMissingMetadata ==
    last.op = "tool" =>
        /\ last.kind = "return" <=> last.func.introspectable
        /\ last.kind = "return" =>
                \A i \in 1..Len(last.func.params) :
                    last.func.params[i].annotation = Empty =>
                        /\ LastArgs[i][2] = "_empty"
                        /\ LastArgs[i][2] # ""
        /\ last.kind = "raise" =>
                /\ last.error = "ValueError: no signature found for builtin " \o last.func.name
                /\ tools = <<>>

\* tool() has returned for a function with no docstring, no return
\* annotation and two parameters without annotation
C6_Witness ==
    /\ Derived
    /\ last.func.doc = NoDoc /\ last.func.ret = Empty
    /\ Len(last.func.params) = 2
    /\ \A i \in 1..2 : last.func.params[i].annotation = Empty

C8_OutputsLabel ==
    Derived =>
        /\ last.func.ret = Empty => LastTool.outputs = "No return annotation"
        /\ last.func.ret # Empty =>
                /\ LastTool.outputs =
                        (IF last.func.ret.hasName THEN last.func.ret.name
                         ELSE last.func.ret.text)
                /\ \A i \in 1..Len(last.func.params) :
                        last.func.params[i].annotation = last.func.ret =>
                            LastArgs[i][2] = LastTool.outputs

\* tool() has returned for a function with a parameter of its return type
C8_Witness ==
    /\ Derived
    /\ last.func.ret # Empty
    /\ \E i \in 1..Len(last.func.params) :
            last.func.params[i].annotation = last.func.ret

\* sub occurs in s
Contains(s, sub) ==
    \E i \in 1..(Len(s) - Len(sub) + 1) : SubSeq(s, i, i + Len(sub) - 1) = sub

\* C9: tool(f).to_string() contains f's name, its docstring, every
\* parameter name followed by its declared type as written, in declaration
\* order, and the declared return type as written.
C9_RoundTrip ==
    (last.op = "to_string" /\ LastTool.func.introspectable) =>
        LET fn == LastTool.func
            declaredArg(i) == fn.params[i].name \o ": " \o fn.params[i].annotation.src
        IN  /\ Contains(last.str, "Tool Name: " \o fn.name \o ",")
            /\ ~fn.doc.isNone => Contains(last.str, fn.doc.text)
            /\ \A i \in 1..Len(fn.params) :
                    /\ Contains(last.str, fn.params[i].name \o ": ")
                    /\ fn.params[i].annotation # Empty =>
                            Contains(last.str, declaredArg(i))
            /\ fn.ret # Empty => Contains(last.str, "Outputs: " \o fn.ret.src)

----------------------------------------------------------------------------
(* Properties of the interleaved runs (specification SpecThreads) *)

\* what tool(func) builds when nothing else runs: the Tool's fields and
\* the contents of its arguments list
Alone(func) ==
    LET r == tool(func, <<>>) IN
    [name |-> r.tool.name, description |-> r.tool.description,
     func |-> r.tool.func, outputs |-> r.tool.outputs,
     arguments |-> r.heap[r.tool.arguments]]

Fields(t) ==
    [name |-> tools[t].name, description |-> tools[t].description,
     func |-> tools[t].func, outputs |-> tools[t].outputs,
     arguments |-> lists[tools[t].arguments]]

\* every completed to_string() returned the rendering of its Tool's fields,
\* and every completed tool(func) returned what tool(func) builds alone
ReturnedAsAlone ==
    \A th \in Threads :
        /\ res[th].op = "to_string" =>
                res[th].str = Tool_to_string(tools[res[th].tool], lists)
        /\ (res[th].op = "tool" /\ res[th].kind = "return") =>
                Fields(res[th].tool) = Alone(res[th].func)

\* C10: whatever the interleaving of tool() and to_string() steps, no step
\* changes a field of an existing Tool, each to_string() returns the
\* rendering of its own Tool's fields (so two calls on one Tool agree), and
\* each tool(func) returns what it returns when run alone.
C10_PureAndIsolated == []ReturnedAsAlone /\ [][SameTools]_vars

\* one thread has rendered the first Tool while the other is in the middle
\* of deriving a second Tool from the same function
C10_Witness ==
    /\ res["t1"].op = "to_string" /\ res["t1"].tool = 1
    /\ pc["t2"] = "for" /\ loc["t2"].i = 2
    /\ loc["t2"].func = tools[1].func

====
